---- MODULE Spec2Model ----
(***************************************************************************)
(* Model of neural_pipeline/data_processor/data_processor.py:              *)
(* TrainDataProcessor (the training / validation orchestration loop) with  *)
(* its optimizer, learning-rate holder, loss histories, epoch counter and  *)
(* the three checkpoint artifacts it saves and loads.                      *)
(*                                                                         *)
(* Tensors are abstracted to small integers: a batch is its id, the model  *)
(* weights are one residue modulo WeightMod, learning rates are LrValues.  *)
(* Every public method is one atomic action (the class is single-threaded  *)
(* and synchronous); the order of the steps inside a call is recorded in   *)
(* the history variable `events`.                                          *)
(***************************************************************************)
EXTENDS Integers, Sequences, FiniteSets, TLC

(* ------------------------- bounds and domains -------------------------- *)
\* Most batches one instance processes (the total length of its histories).
MaxHist == 3
\* Largest epoch index given to train_epoch.
MaxEpochIdx == 1

BatchIds == {1, 2}
LrValues == {1, 2}
Weights == {0, 1, 2}
WeightMod == Cardinality(Weights)
LossValues == {0, 1}
Groups == {1, 2}
EpochIdxs == 0..MaxEpochIdx
\* The batch sequences a dataloader may produce: the batches of its dataset,
\* each once, in some order.
Loaders ==
    {<<>>} \cup {<<b>> : b \in BatchIds}
           \cup {p \in BatchIds \X BatchIds : p[1] # p[2]}
\* A dataloader over an empty dataset.
EmptyLoaders == {<<>>}
\* A training run: RunEpochs epochs, each over BatchesPerEpoch training and
\* BatchesPerEpoch validation batches.
RunEpochs == 3
BatchesPerEpoch == 5
\* The batch sequences of a run's dataloaders: the dataset's batches in
\* turn, from either of them on.
RunLoaders ==
    {[i \in 1..BatchesPerEpoch |-> ((b + i) % Cardinality(BatchIds)) + 1] : b \in BatchIds}

VARIABLES
    model,              \* self._model: [weights, mode]
    optimizer,          \* self.__optimizer: [grads, state, param_groups]
    learning_rate,      \* self.__learning_rate (the holder's value)
    epoch_num,          \* self.__epoch_num
    train_loss_values,  \* self.__train_loss_values
    val_loss_values,    \* self.__val_loss_values
    weights_file,       \* the model-weights artifact: <<>> or <<weights>>
    optimizer_state_file,      \* <<>> or <<blob>>
    data_processor_state_file, \* [kind, fields, last_epoch_idx, lr]
    events,             \* history: the steps of the last call, in order
    last,               \* history: the last call, its arguments and outcome
    rt,                 \* history: progress of a save / new instance / load round trip
    reset_policy,       \* the calling program: "none", or a training run that
                        \* calls reset_losses "never" or before "every" epoch
    held_state          \* the calling program: <<>>, or the result of a
                        \* get_state() it keeps and what that read when returned

vars == <<model, optimizer, learning_rate, epoch_num, train_loss_values,
          val_loss_values, weights_file, optimizer_state_file,
          data_processor_state_file, events, last, rt, reset_policy, held_state>>

(* ------------------------- external collaborators ---------------------- *)
\* The wrapped torch module's forward pass; dropout-like layers make the
\* output depend on the module's mode.
Forward(w, b, mode) == (w + b + (IF mode = "train" THEN 1 ELSE 0)) % WeightMod

\* batch['target']
Target(b) == b

\* self.__criterion(res, target)
Criterion(out, target) == (out + target) % Cardinality(LossValues)

\* The gradient loss.backward() adds to the parameters' .grad
Gradient(w, b) == ((w + b) % 2) + 1

\* keys of torch.optim.Optimizer.state_dict()
OptimizerKeys == {"state", "param_groups"}
AllKeys == OptimizerKeys \cup {"stale"}

(* --------------------------- the instance ------------------------------ *)
\* The instance's fields as one record, with the working values of a call:
\* log (the steps taken so far), res (the output of predict) and status
\* ("ok", or the name of the error that ended the call).
Self ==
    [model |-> model, optimizer |-> optimizer, learning_rate |-> learning_rate,
     epoch_num |-> epoch_num, train_loss_values |-> train_loss_values,
     val_loss_values |-> val_loss_values, log |-> <<>>, res |-> 0,
     loss |-> 0, handed |-> {}, status |-> "ok"]

\* One step of a call, as recorded in the log.
Event(s, ev, b, tr, out, val, grad) ==
    [ev |-> ev, b |-> b, tr |-> tr, out |-> out, val |-> val,
     mode |-> IF ev = "forward" THEN s.model.mode ELSE "", grad |-> grad]

Logged(s, e) == [s EXCEPT !.log = Append(@, e)]

(* ------------------------------ predict -------------------------------- *)
\* DataProcessor.predict: eval mode, forward under torch.no_grad()
BasePredict(s, b) ==
    LET m == [s.model EXCEPT !.mode = "eval"]
        out == Forward(m.weights, b, "eval")
        s1 == [s EXCEPT !.model = m, !.res = out]
    IN  Logged(s1, Event(s1, "forward", b, FALSE, out, out, FALSE))

PredictKeepsMode(s, b, is_train) ==
    LET out == Forward(s.model.weights, b, s.model.mode)
        s1 == [s EXCEPT !.res = out]
    IN  Logged(s1, Event(s1, "forward", b, is_train, out, out, s.model.mode = "train"))

\* TrainDataProcessor.predict
Predict(s, b, is_train) ==
    IF is_train
    THEN LET m == [s.model EXCEPT !.mode = "train"]
             out == Forward(m.weights, b, "train")
             s1 == [s EXCEPT !.model = m, !.res = out]
         IN  Logged(s1, Event(s1, "forward", b, TRUE, out, out, TRUE))
    ELSE BasePredict([s EXCEPT !.model.mode = "eval"], b)

(* --------------------------- process_batch ----------------------------- *)
\* self.__optimizer.zero_grad()
ZeroGradKeepsGrads(s, b) ==
    Logged(s, Event(s, "zero_grad", b, TRUE, 0, s.optimizer.grads, FALSE))

ZeroGrad(s, b) ==
    LET s1 == [s EXCEPT !.optimizer.grads = 0]
    IN  Logged(s1, Event(s1, "zero_grad", b, TRUE, 0, 0, FALSE))

\* self.metrics_processor.calc_metrics(res, batch['target'], is_train);
\* an exception of the collector propagates out of the call.
CalcMetrics(s, b, is_train, mfail) ==
    LET s1 == Logged(s, Event(s, "metrics", b, is_train, s.res, Target(b), FALSE))
    IN  IF mfail THEN [s1 EXCEPT !.status = "MetricsFailure"] ELSE s1

\* loss = self.__criterion(res, batch['target'])
Objective(s, b, is_train) ==
    LET l == Criterion(s.res, Target(b))
        s1 == [s EXCEPT !.loss = l]
    IN  Logged(s1, Event(s1, "loss", b, is_train, s.res, l, FALSE))

\* loss.backward(): adds this batch's gradient to the accumulated one
Backward(s, b) ==
    LET g == Gradient(s.model.weights, b)
        s1 == [s EXCEPT !.optimizer.grads = @ + g]
    IN  Logged(s1, Event(s1, "backward", b, TRUE, 0, g, TRUE))

\* Sum of the parameter groups' learning rates
RECURSIVE SumLr(_)
SumLr(groups) ==
    IF groups = <<>> THEN 0 ELSE Head(groups) + SumLr(Tail(groups))

\* self.__optimizer.step(): consumes the accumulated gradient
Step(s, b) ==
    LET g == s.optimizer.grads
        w == (s.model.weights + WeightMod * g * SumLr(s.optimizer.param_groups)
                - g * SumLr(s.optimizer.param_groups)) % WeightMod
        s1 == [s EXCEPT !.model.weights = w, !.optimizer.state = g]
    IN  Logged(s1, Event(s1, "step", b, TRUE, 0, g, FALSE))

BackwardAndStepAlways(s, b, is_train) == Step(Backward(s, b), b)

\* if is_train: loss.backward(); self.__optimizer.step()
BackwardAndStep(s, b, is_train) ==
    IF is_train THEN Step(Backward(s, b), b) ELSE s

AppendLossToTrain(s, b, is_train) ==
    LET s1 == [s EXCEPT !.train_loss_values = Append(@, s.loss)]
    IN  Logged(s1, Event(s1, "append", b, is_train, 0, s.loss, FALSE))

\* np.append to the history selected by is_train
AppendLoss(s, b, is_train) ==
    LET s1 == IF is_train
              THEN [s EXCEPT !.train_loss_values = Append(@, s.loss)]
              ELSE [s EXCEPT !.val_loss_values = Append(@, s.loss)]
    IN  Logged(s1, Event(s1, "append", b, is_train, 0, s.loss, FALSE))

\* if is_train: self.__optimizer.zero_grad()
ResetGradients(s, b, is_train) == IF is_train THEN ZeroGrad(s, b) ELSE s

ProcessBatchMetricsAfterStep(s, b, is_train, mfail) ==
    LET s1 == Predict(ResetGradients(s, b, is_train), b, is_train)
        s2 == BackwardAndStep(Objective(s1, b, is_train), b, is_train)
        s3 == CalcMetrics([s2 EXCEPT !.res = Forward(s2.model.weights, b, s2.model.mode)],
                          b, is_train, mfail)
    IN  IF s3.status # "ok" THEN s3 ELSE AppendLoss(s3, b, is_train)

\* TrainDataProcessor.process_batch (the transfer of the batch to the
\* accelerator changes no value and is left out)
ProcessBatch(s, b, is_train, mfail) ==
    LET s1 == ResetGradients(s, b, is_train)
        s2 == Predict(s1, b, is_train)
        s3 == CalcMetrics(s2, b, is_train, mfail)
    IN  IF s3.status # "ok"
        THEN s3
        ELSE AppendLoss(BackwardAndStep(Objective(s3, b, is_train), b, is_train),
                        b, is_train)

(* ----------------------------- train_epoch ----------------------------- *)
\* for batch in t: self.process_batch(batch, is_train); the metrics call of
\* batch number failAt (0: none) raises, which ends the loop and the call.
RECURSIVE RunBatches(_, _, _, _)
RunBatches(s, batches, is_train, failAt) ==
    IF batches = <<>> \/ s.status # "ok"
    THEN s
    ELSE RunBatches(ProcessBatch(s, Head(batches), is_train, failAt = 1),
                    Tail(batches), is_train, failAt - 1)

SetEpochNext(s, epoch_idx) ==
    LET s1 == [s EXCEPT !.epoch_num = @ + 1]
    IN  Logged(s1, Event(s1, "set_epoch", 0, FALSE, 0, epoch_idx, FALSE))

\* self.__epoch_num = epoch_idx
SetEpoch(s, epoch_idx) ==
    LET s1 == [s EXCEPT !.epoch_num = epoch_idx]
    IN  Logged(s1, Event(s1, "set_epoch", 0, FALSE, 0, epoch_idx, FALSE))

TrainEpochValidationFirst(s, train_dataloader, validation_dataloader, epoch_idx, failAt) ==
    LET s1 == RunBatches(s, validation_dataloader, FALSE, failAt)
        s2 == RunBatches(s1, train_dataloader, TRUE, failAt - Len(validation_dataloader))
    IN  IF s2.status # "ok" THEN s2 ELSE SetEpoch(s2, epoch_idx)

\* TrainDataProcessor.train_epoch
TrainEpoch(s, train_dataloader, validation_dataloader, epoch_idx, failAt) ==
    LET s1 == RunBatches(s, train_dataloader, TRUE, failAt)
        s2 == RunBatches(s1, validation_dataloader, FALSE, failAt - Len(train_dataloader))
    IN  IF s2.status # "ok" THEN s2 ELSE SetEpoch(s2, epoch_idx)

(* ------------------------------ update_lr ------------------------------ *)
UpdateLrFirstGroup(s, lr) ==
    [s EXCEPT !.optimizer.param_groups =
                  [g \in DOMAIN @ |-> IF g = 1 THEN lr ELSE @[g]]]

\* TrainDataProcessor.update_lr
UpdateLr(s, lr) ==
    [s EXCEPT !.optimizer.param_groups = [g \in DOMAIN @ |-> lr]]

(* ------------------------------ get_state ------------------------------ *)
\* TrainDataProcessor.get_state: the two state_dict() results as they come.
\* The module's state_dict holds the parameter tensors themselves, and the
\* optimizer's holds its per-parameter state objects themselves ("ref": the
\* live object); the optimizer's param_groups are packed into new dicts, so
\* their learning rates are the values at the time of the call.
GetState(s) ==
    [weights |-> "ref",
     optimizer |-> [state |-> "ref", param_groups |-> s.optimizer.param_groups]]

\* What a result of get_state() reads as when the instance is s
ReadState(st, s) ==
    [weights |-> IF st.weights = "ref" THEN s.model.weights ELSE st.weights,
     optimizer |->
        [state |-> IF st.optimizer.state = "ref" THEN s.optimizer.state
                   ELSE st.optimizer.state,
         param_groups |-> st.optimizer.param_groups]]

(* ------------------------------ get_losses ----------------------------- *)
\* TrainDataProcessor.get_losses
GetLosses(s) == [train |-> s.val_loss_values, validation |-> s.train_loss_values]

\* What get_losses() would return now
Losses == GetLosses(Self)

(* ----------------------------- checkpoints ----------------------------- *)
\* The artifacts as one record
Files ==
    [weights |-> weights_file, optimizer |-> optimizer_state_file,
     state |-> data_processor_state_file]

NoStateFile == [kind |-> "missing", fields |-> {}, last_epoch_idx |-> 0, lr |-> 0]

\* self.__optimizer.state_dict()
StateDict(s) ==
    [keys |-> OptimizerKeys, state |-> s.optimizer.state,
     param_groups |-> s.optimizer.param_groups]

\* The learning-rate holder: value() reports what set_value() stored last.
HolderValue(s) == s.learning_rate

HolderSetValue(s, lr) == [s EXCEPT !.learning_rate = lr]

\* json.dump({"last_epoch_idx": ..., 'lr': self.__learning_rate.value()}, out)
DumpState(s) ==
    [kind |-> "json", fields |-> {"last_epoch_idx", "lr"},
     last_epoch_idx |-> s.epoch_num, lr |-> HolderValue(s)]

\* Model.save_weights: writes the weights artifact
SaveWeights(s, f) == [f EXCEPT !.weights = <<s.model.weights>>]

SaveOrderWeightsFirst == <<"weights", "optimizer", "state">>

\* The writes of save_state in the order of its statements: torch.save of
\* the optimizer's state, json.dump of the state, self._model.save_weights()
SaveOrder == <<"optimizer", "state", "weights">>

\* One write of save_state
WriteArtifact(s, f, a) ==
    CASE a = "optimizer" -> [f EXCEPT !.optimizer = <<StateDict(s)>>]
      [] a = "state" -> [f EXCEPT !.state = DumpState(s)]
      [] a = "weights" -> SaveWeights(s, f)

\* The artifacts after the first n writes of save_state
RECURSIVE SaveStateUpTo(_, _, _)
SaveStateUpTo(s, f, n) ==
    IF n = 0 THEN f ELSE WriteArtifact(s, SaveStateUpTo(s, f, n - 1), SaveOrder[n])

\* TrainDataProcessor.save_state: the artifacts after the call
SaveState(s, f) == SaveStateUpTo(s, f, Len(SaveOrder))

\* Model.load_weights: restores the weights, fails when the artifact is absent
LoadWeights(s, f) ==
    IF f.weights = <<>>
    THEN [s EXCEPT !.status = "CheckpointMissing"]
    ELSE [s EXCEPT !.model.weights = f.weights[1]]

FilterKeysKeepsAll(blob, s) == blob

\* state = {k: v for k, v in state.items() if k in self.__optimizer.state_dict()}
FilterKeys(blob, s) == [blob EXCEPT !.keys = @ \cap StateDict(s).keys]

\* torch's Optimizer.load_state_dict: reads 'param_groups' and 'state' of the
\* dict it is given (KeyError when one is absent) and ignores other keys.
LoadStateDict(s, blob) ==
    IF ~ (OptimizerKeys \subseteq blob.keys)
    THEN [s EXCEPT !.handed = blob.keys, !.status = "OptimizerKeyError"]
    ELSE [s EXCEPT !.handed = blob.keys, !.optimizer.state = blob.state,
                   !.optimizer.param_groups = blob.param_groups]

\* lines 175-179: torch.load of the optimizer artifact, the filter, load_state_dict
LoadOptimizer(s, f) ==
    IF f.optimizer = <<>>
    THEN [s EXCEPT !.status = "CheckpointMissing"]
    ELSE LoadStateDict(s, FilterKeys(f.optimizer[1], s))

LoadDpStateWithoutUpdateLr(s, f) ==
    IF f.state.kind = "missing" THEN [s EXCEPT !.status = "CheckpointMissing"]
    ELSE IF f.state.kind = "malformed" THEN [s EXCEPT !.status = "StateCorrupt"]
    ELSE IF "last_epoch_idx" \notin f.state.fields THEN [s EXCEPT !.status = "StateCorrupt"]
    ELSE LET s1 == [s EXCEPT !.epoch_num = f.state.last_epoch_idx]
         IN  IF "lr" \notin f.state.fields
             THEN [s1 EXCEPT !.status = "StateCorrupt"]
             ELSE HolderSetValue(s1, f.state.lr)

\* lines 182-186: open and parse the structured state, then epoch, update_lr, set_value
LoadDpState(s, f) ==
    IF f.state.kind = "missing" THEN [s EXCEPT !.status = "CheckpointMissing"]
    ELSE IF f.state.kind = "malformed" THEN [s EXCEPT !.status = "StateCorrupt"]
    ELSE IF "last_epoch_idx" \notin f.state.fields THEN [s EXCEPT !.status = "StateCorrupt"]
    ELSE LET s1 == [s EXCEPT !.epoch_num = f.state.last_epoch_idx]
         IN  IF "lr" \notin f.state.fields
             THEN [s1 EXCEPT !.status = "StateCorrupt"]
             ELSE HolderSetValue(UpdateLr(s1, f.state.lr), f.state.lr)

LoadEpochFirst(s, f) ==
    LET s0 == IF f.state.kind = "json" /\ "last_epoch_idx" \in f.state.fields
              THEN [s EXCEPT !.epoch_num = f.state.last_epoch_idx] ELSE s
        s1 == LoadWeights(s0, f)
        s2 == IF s1.status # "ok" THEN s1 ELSE LoadOptimizer(s1, f)
    IN  IF s2.status # "ok" THEN s2 ELSE LoadDpState(s2, f)

\* TrainDataProcessor.load
Load(s, f) ==
    LET s1 == LoadWeights(s, f)
        s2 == IF s1.status # "ok" THEN s1 ELSE LoadOptimizer(s1, f)
    IN  IF s2.status # "ok" THEN s2 ELSE LoadDpState(s2, f)

(* ------------------------------- actions ------------------------------- *)
NoRoundTrip == [stage |-> "none", epoch |-> 0, holder |-> 0, lrs |-> <<>>, upd |-> 0]

Call(op, status, tr, arg, handed) ==
    [op |-> op, status |-> status, tr |-> tr, arg |-> arg, handed |-> handed,
     train |-> <<>>, val |-> <<>>]

\* The instance's fields take the values of record s.
Install(s) ==
    /\ model' = s.model
    /\ optimizer' = s.optimizer
    /\ learning_rate' = s.learning_rate
    /\ epoch_num' = s.epoch_num
    /\ train_loss_values' = s.train_loss_values
    /\ val_loss_values' = s.val_loss_values
    /\ events' = s.log
    /\ UNCHANGED <<reset_policy, held_state>>

FilesUnchanged ==
    UNCHANGED <<weights_file, optimizer_state_file, data_processor_state_file>>

\* TrainDataProcessor.__init__: a new instance over the same artifacts, with
\* the holder and the optimizer its train config gives it.
NewInstance ==
    \E h \in LrValues, lr \in LrValues, w \in Weights :
        /\ Install([Self EXCEPT !.model = [weights |-> w, mode |-> "train"],
                                !.optimizer = [grads |-> 0, state |-> 0,
                                               param_groups |-> [g \in Groups |-> lr]],
                                !.learning_rate = h, !.epoch_num = 0,
                                !.train_loss_values = <<>>, !.val_loss_values = <<>>])
        /\ last' = Call("init", "ok", FALSE, 0, {})
        /\ rt' = IF rt.stage = "saved" THEN [rt EXCEPT !.stage = "fresh"] ELSE NoRoundTrip
        /\ FilesUnchanged

PredictCall ==
    \E b \in BatchIds, is_train \in BOOLEAN :
        /\ \E s \in {Predict(Self, b, is_train)} : Install(s)
        /\ last' = Call("predict", "ok", is_train, 0, {})
        /\ rt' = NoRoundTrip
        /\ FilesUnchanged

ProcessBatchCall ==
    \E b \in BatchIds, is_train \in BOOLEAN, mfail \in BOOLEAN :
        /\ Len(train_loss_values) + Len(val_loss_values) < MaxHist
        /\ \E s \in {ProcessBatch(Self, b, is_train, mfail)} :
               /\ Install(s)
               /\ last' = Call("process_batch", s.status, is_train, b, {})
        /\ rt' = NoRoundTrip
        /\ FilesUnchanged

TrainEpochCall(loaders) ==
    \E tr \in loaders, va \in loaders, epoch_idx \in EpochIdxs :
      \E failAt \in 0..(Len(tr) + Len(va)) :
        /\ Len(train_loss_values) + Len(val_loss_values) + Len(tr) + Len(va) <= MaxHist
        /\ \E s \in {TrainEpoch(Self, tr, va, epoch_idx, failAt)} :
               /\ Install(s)
               /\ last' = [Call("train_epoch", s.status, FALSE, epoch_idx, {})
                             EXCEPT !.train = tr, !.val = va]
        /\ rt' = NoRoundTrip
        /\ FilesUnchanged

UpdateLrCall ==
    \E lr \in LrValues :
        /\ Install(UpdateLr(Self, lr))
        /\ last' = Call("update_lr", "ok", FALSE, lr, {})
        /\ rt' = NoRoundTrip
        /\ FilesUnchanged

SaveStateCall ==
    LET f == SaveState(Self, Files)
    IN  /\ weights_file' = f.weights
        /\ optimizer_state_file' = f.optimizer
        /\ data_processor_state_file' = f.state
        /\ Install(Self)
        /\ last' = Call("save_state", "ok", FALSE, 0, {})
        /\ rt' = [stage |-> "saved", epoch |-> epoch_num, holder |-> learning_rate,
                  lrs |-> optimizer.param_groups,
                  upd |-> IF last.op = "update_lr" THEN last.arg ELSE 0]

\* save_state raises in write number n + 1 (no space, no permission): the
\* writes before it are done, the ones after it are not begun. A failure of
\* json.dump comes after open(..., 'w') has emptied the state file, so that
\* file is then left as it was (open failed) or without parsable content.
SaveStateFails ==
    \E n \in 0..(Len(SaveOrder) - 1), emptied \in BOOLEAN :
        /\ emptied => SaveOrder[n + 1] = "state"
        /\ \E f \in {SaveStateUpTo(Self, Files, n)} :
               /\ weights_file' = f.weights
               /\ optimizer_state_file' = f.optimizer
               /\ data_processor_state_file' =
                      IF emptied THEN [NoStateFile EXCEPT !.kind = "malformed"] ELSE f.state
        /\ Install(Self)
        /\ last' = Call("save_state", "WriteFailure", FALSE, n, {})
        /\ rt' = NoRoundTrip

LoadCall ==
    \E s \in {Load(Self, Files)} :
        /\ Install(s)
        /\ last' = Call("load", s.status, FALSE, 0, s.handed)
        /\ rt' = IF rt.stage = "fresh" /\ s.status = "ok"
                 THEN [rt EXCEPT !.stage = "loaded"] ELSE NoRoundTrip
        /\ FilesUnchanged

\* TrainDataProcessor.get_state: the caller keeps the result.
GetStateCall ==
    /\ held_state' = <<[result |-> GetState(Self),
                        seen |-> ReadState(GetState(Self), Self)]>>
    /\ UNCHANGED <<model, optimizer, learning_rate, epoch_num, train_loss_values,
                   val_loss_values, reset_policy>>
    /\ events' = <<>>
    /\ last' = Call("get_state", "ok", FALSE, 0, {})
    /\ rt' = NoRoundTrip
    /\ FilesUnchanged

\* One epoch of a training run: train_epoch over the run's dataloaders with
\* the next epoch index, after a reset_losses() when the run resets.
RunEpoch ==
    \E tr \in RunLoaders, va \in RunLoaders :
        /\ reset_policy # "none"
        /\ epoch_num < RunEpochs
        /\ reset_policy = "every" => last.op = "reset_losses"
        /\ \E s \in {TrainEpoch(Self, tr, va, epoch_num + 1, 0)} :
               /\ Install(s)
               /\ last' = [Call("train_epoch", s.status, FALSE, epoch_num + 1, {})
                             EXCEPT !.train = tr, !.val = va]
        /\ rt' = NoRoundTrip
        /\ FilesUnchanged

\* TrainDataProcessor.get_losses: a read; what it returned under 'train' and
\* under 'validation' is kept in the call record.
GetLossesCall ==
    /\ Install(Self)
    /\ last' = [Call("get_losses", "ok", FALSE, 0, {})
                  EXCEPT !.train = Losses.train, !.val = Losses.validation]
    /\ rt' = NoRoundTrip
    /\ FilesUnchanged

\* TrainDataProcessor.reset_losses: np.ndarray([]) is a 0-dimensional array
\* holding one uninitialized value, which np.append later keeps as an entry.
ResetLosses ==
    \E gv \in LossValues, gt \in LossValues :
        /\ Install([Self EXCEPT !.val_loss_values = <<gv>>, !.train_loss_values = <<gt>>])
        /\ last' = Call("reset_losses", "ok", FALSE, 0, {})
        /\ rt' = NoRoundTrip
        /\ FilesUnchanged

Untouched ==
    /\ UNCHANGED <<model, optimizer, learning_rate, epoch_num, train_loss_values,
                   val_loss_values, events, reset_policy, held_state>>
    /\ last' = Call("files", "ok", FALSE, 0, {})
    /\ rt' = NoRoundTrip

\* An artifact is absent at the path the instance is pointed at.
ArtifactRemoved ==
    /\ \/ /\ weights_file # <<>>
          /\ weights_file' = <<>>
          /\ UNCHANGED <<optimizer_state_file, data_processor_state_file>>
       \/ /\ optimizer_state_file # <<>>
          /\ optimizer_state_file' = <<>>
          /\ UNCHANGED <<weights_file, data_processor_state_file>>
       \/ /\ data_processor_state_file.kind # "missing"
          /\ data_processor_state_file' = NoStateFile
          /\ UNCHANGED <<weights_file, optimizer_state_file>>
    /\ Untouched

\* The structured state file does not parse, or lacks a field.
StateFileDamaged ==
    /\ data_processor_state_file.kind = "json"
    /\ \/ data_processor_state_file' = [NoStateFile EXCEPT !.kind = "malformed"]
       \/ \E k \in data_processor_state_file.fields :
              data_processor_state_file' =
                  [data_processor_state_file EXCEPT !.fields = @ \ {k}]
    /\ UNCHANGED <<weights_file, optimizer_state_file>>
    /\ Untouched

\* The optimizer artifact was written by another optimizer configuration:
\* its key set differs from the one state_dict() produces here.
ForeignOptimizerBlob ==
    /\ optimizer_state_file # <<>>
    /\ \E ks \in {AllKeys} \cup {OptimizerKeys \ {k} : k \in OptimizerKeys} :
          /\ ks # optimizer_state_file[1].keys
          /\ optimizer_state_file' = <<[optimizer_state_file[1] EXCEPT !.keys = ks]>>
    /\ UNCHANGED <<weights_file, data_processor_state_file>>
    /\ Untouched

\* The first instance: a train config whose holder and optimizer both start
\* at the smallest learning rate, and no checkpoint on disk.
Constructed ==
    /\ learning_rate = 1
    /\ optimizer = [grads |-> 0, state |-> 0, param_groups |-> [g \in Groups |-> 1]]
    /\ model = [weights |-> 0, mode |-> "train"]
    /\ epoch_num = 0
    /\ train_loss_values = <<>>
    /\ val_loss_values = <<>>
    /\ weights_file = <<>>
    /\ optimizer_state_file = <<>>
    /\ data_processor_state_file = NoStateFile
    /\ events = <<>>
    /\ last = Call("init", "ok", FALSE, 0, {})
    /\ rt = NoRoundTrip
    /\ held_state = <<>>

Init == Constructed /\ reset_policy = "none"

\* Training and validation on one instance.
NextTrain ==
    \/ PredictCall
    \/ ProcessBatchCall
    \/ TrainEpochCall(Loaders)
    \/ UpdateLrCall
    \/ ResetLosses

SpecTrain == Init /\ [][NextTrain]_vars

\* Checkpoints: instances that save and load the artifacts; the epochs run
\* between two checkpoints are over empty datasets.
NextCheckpoint ==
    \/ NewInstance
    \/ TrainEpochCall(EmptyLoaders)
    \/ UpdateLrCall
    \/ SaveStateCall
    \/ SaveStateFails
    \/ LoadCall
    \/ ArtifactRemoved
    \/ StateFileDamaged
    \/ ForeignOptimizerBlob

SpecCheckpoint == Init /\ [][NextCheckpoint]_vars

\* One instance through every operation: batches while the histories hold
\* at most one entry, epochs over empty datasets, checkpoints written and read back.
NextLifetime ==
    \/ ProcessBatchCall /\ Len(train_loss_values) + Len(val_loss_values) <= 1
    \/ TrainEpochCall(EmptyLoaders)
    \/ UpdateLrCall
    \/ SaveStateCall
    \/ LoadCall
    \/ GetLossesCall
    \/ ResetLosses

SpecLifetime == Init /\ [][NextLifetime]_vars

\* A caller that keeps a result of get_state() while the instance trains.
NextSnapshot ==
    \/ GetStateCall
    \/ ProcessBatchCall /\ Len(train_loss_values) + Len(val_loss_values) <= 1
    \/ TrainEpochCall(Loaders) /\ Len(train_loss_values') + Len(val_loss_values') <= 2
    \/ UpdateLrCall

SpecSnapshot == Init /\ [][NextSnapshot]_vars

\* A training run of RunEpochs epochs on a fresh instance, by a caller that
\* never calls reset_losses() or calls it before every epoch.
InitRun == Constructed /\ reset_policy \in {"never", "every"}

NextRun ==
    \/ RunEpoch
    \/ /\ reset_policy = "every" /\ last.op # "reset_losses" /\ epoch_num < RunEpochs
       /\ ResetLosses

SpecRun == InitRun /\ [][NextRun]_vars

(* ------------------------- reading the history ------------------------- *)
\* The names of the steps in a log, in order
EvNames(log) == [i \in 1..Len(log) |-> log[i].ev]

\* The steps process_batch is to take, in order
TrainOrder == <<"zero_grad", "forward", "metrics", "loss", "backward", "step", "append">>
EvalOrder == <<"forward", "metrics", "loss", "append">>

\* The (batch, is_train) pairs of the forward passes in a log, in order
Passes(log) ==
    LET IsForward(e) == e.ev = "forward"
        fw == SelectSeq(log, IsForward)
    IN  [i \in 1..Len(fw) |-> <<fw[i].b, fw[i].tr>>]

Tagged(batches, tr) == [i \in 1..Len(batches) |-> <<batches[i], tr>>]

IsPrefix(p, q) == Len(p) <= Len(q) /\ \A i \in 1..Len(p) : p[i] = q[i]

(* -------------------------------- claims ------------------------------- *)

\* C1: in every training batch the accumulated gradients are zeroed before
\* the forward pass, so the gradient an optimizer step consumes is exactly
\* the one the backward pass of the same batch produced.
C1_StepSeesOnlyOwnGradient ==
    \A i \in 1..Len(events) :
        events[i].ev = "step" =>
            /\ i > 5
            /\ events[i-1].ev = "backward" /\ events[i-1].b = events[i].b
            /\ events[i].val = events[i-1].val
            /\ \E z \in 1..(i-1), f \in 1..(i-1) :
                  /\ z < f
                  /\ events[z].ev = "zero_grad" /\ events[z].val = 0
                  /\ events[f].ev = "forward" /\ events[f].b = events[i].b
                  /\ \A k \in (z+1)..(i-2) : events[k].ev \notin {"backward", "step", "append"}

\* C1 witness: one epoch ran two training batches in a row and stepped twice.
C1_Witness ==
    \E i \in 1..Len(events), j \in 1..Len(events) :
        i < j /\ events[i].ev = "step" /\ events[j].ev = "step"

\* C2: process_batch with is_train = False leaves the optimizer (accumulated
\* gradients, state, parameter groups) and the model weights as they were,
\* and takes no zero_grad, backward or step.
C2_EvalLeavesOptimizer ==
    [][(last'.op = "process_batch" /\ ~ last'.tr)
          => /\ optimizer' = optimizer
             /\ model'.weights = model.weights
             /\ \A i \in 1..Len(events') :
                   events'[i].ev \notin {"zero_grad", "backward", "step"}]_vars

\* C2 witness: a validation batch was processed by an instance whose
\* optimizer had already accumulated a gradient and taken a step.
C2_Witness ==
    /\ last.op = "process_batch" /\ ~ last.tr /\ last.status = "ok"
    /\ optimizer.grads # 0 /\ optimizer.state # 0

\* C3: the steps of one process_batch come in the order gradient reset,
\* forward, metrics, loss, backward, step, append; reset, backward and step
\* only when training; the metrics collector gets the output the loss uses.
C3_FixedOrder ==
    last.op = "process_batch" =>
        LET want == IF last.tr THEN TrainOrder ELSE EvalOrder
            names == EvNames(events)
        IN  /\ IF last.status = "ok" THEN names = want ELSE IsPrefix(names, want)
            /\ \A i \in 1..Len(events), j \in 1..Len(events) :
                  /\ (events[i].ev = "forward" /\ events[j].ev = "metrics")
                        => events[j].out = events[i].out
                  /\ (events[i].ev = "metrics" /\ events[j].ev = "loss")
                        => events[j].out = events[i].out

\* C3 witness: a training batch ran to its end.
C3_Witness ==
    /\ last.op = "process_batch" /\ last.tr /\ last.status = "ok"
    /\ Len(events) = Len(TrainOrder)

\* C4: train_epoch runs every training batch in order with is_train = True,
\* then every validation batch in order with is_train = False, and sets the
\* epoch counter last; no step is taken once validation has begun.
C4_TrainThenValidate ==
    last.op = "train_epoch" =>
        LET want == Tagged(last.train, TRUE) \o Tagged(last.val, FALSE)
            n == Len(events)
        IN  /\ IsPrefix(Passes(events), want)
            /\ \A i \in 1..n, j \in 1..n :
                  (i < j /\ events[i].ev = "forward" /\ ~ events[i].tr)
                      => (~ events[j].tr /\ events[j].ev # "step")
            /\ \A i \in 1..n : events[i].ev = "set_epoch" => i = n
            /\ last.status = "ok" =>
                  /\ Passes(events) = want
                  /\ n > 0 /\ events[n].ev = "set_epoch" /\ events[n].val = last.arg
                  /\ epoch_num = last.arg
                  /\ Len(SelectSeq(events, LAMBDA e : e.ev = "append")) = Len(want)

\* C4 witness: an epoch of two training batches and a validation batch completed.
C4_Witness ==
    /\ last.op = "train_epoch" /\ last.status = "ok"
    /\ Len(last.train) = 2 /\ Len(last.val) = 1

\* Some artifact of the checkpoint is absent.
ArtifactMissing ==
    \/ weights_file = <<>>
    \/ optimizer_state_file = <<>>
    \/ data_processor_state_file.kind = "missing"

\* All three artifacts are present and the structured state has both fields.
CheckpointComplete ==
    /\ weights_file # <<>>
    /\ optimizer_state_file # <<>>
    /\ data_processor_state_file.kind = "json"
    /\ data_processor_state_file.fields = {"last_epoch_idx", "lr"}

\* C5: save_state() then load() on a fresh instance over the same files
\* gives the fresh instance the epoch index, the holder's learning rate and
\* the parameter groups' learning rates the saving instance had.
C5_RoundTrip ==
    rt.stage = "loaded" =>
        /\ epoch_num = rt.epoch
        /\ learning_rate = rt.holder
        /\ optimizer.param_groups = rt.lrs

\* C6: the learning rate given to update_lr just before save_state() is the
\* one the holder of a fresh instance reports after load().
C6_UpdatedLrRestored ==
    (rt.stage = "loaded" /\ rt.upd # 0) => learning_rate = rt.upd

\* C7: after a successful load() every parameter group's learning rate
\* equals the holder's value, and both equal the lr of the structured state.
C7_LrAgreeAfterLoad ==
    (last.op = "load" /\ last.status = "ok") =>
        /\ \A g \in DOMAIN optimizer.param_groups :
              optimizer.param_groups[g] = learning_rate
        /\ learning_rate = data_processor_state_file.lr

\* C7 witness: a load succeeded on a checkpoint whose optimizer blob carries
\* a learning rate other than the one of the structured state.
C7_Witness ==
    /\ last.op = "load" /\ last.status = "ok"
    /\ optimizer_state_file[1].param_groups[1] # data_processor_state_file.lr

\* C8: load() with an artifact absent fails, with CheckpointMissing when
\* nothing is there at all, and the epoch counter keeps its value.
C8_MissingCheckpointFails ==
    [][(last'.op = "load" /\ ArtifactMissing)
          => /\ last'.status # "ok"
             /\ epoch_num' = epoch_num
             /\ (weights_file = <<>> => last'.status = "CheckpointMissing")]_vars

\* C8 witness: an instance at epoch 1 tried to load from a path with no artifact.
C8_Witness ==
    /\ last.op = "load" /\ last.status = "CheckpointMissing"
    /\ weights_file = <<>> /\ optimizer_state_file = <<>>
    /\ data_processor_state_file.kind = "missing"
    /\ epoch_num = 1

\* C9: a load() that fails has changed none of the weights, the optimizer,
\* the epoch counter and the holder.
C9_NoPartialResume ==
    [][(last'.op = "load" /\ last'.status \in {"CheckpointMissing", "StateCorrupt"})
          => /\ model' = model
             /\ optimizer' = optimizer
             /\ epoch_num' = epoch_num
             /\ learning_rate' = learning_rate]_vars

\* C10: when the saved optimizer blob has every key of the current optimizer
\* and more, load() of a complete checkpoint succeeds and hands the optimizer
\* exactly the keys present in both.
C10_StaleKeysDropped ==
    (/\ last.op = "load"
     /\ CheckpointComplete
     /\ OptimizerKeys \subseteq optimizer_state_file[1].keys
     /\ OptimizerKeys # optimizer_state_file[1].keys)
        => /\ last.status = "ok"
           /\ last.handed = optimizer_state_file[1].keys \cap OptimizerKeys

\* C10 witness: a load succeeded from a blob that carries a stale key.
C10_Witness ==
    /\ last.op = "load" /\ last.status = "ok"
    /\ "stale" \in optimizer_state_file[1].keys
    /\ "stale" \notin last.handed

\* C11: reset_losses() leaves both histories empty, and the first
\* process_batch after it leaves the history it appends to with one entry.
C11_ResetEmpties ==
    [][/\ last'.op = "reset_losses"
            => (Len(train_loss_values') = 0 /\ Len(val_loss_values') = 0)
       /\ (last.op = "reset_losses" /\ last'.op = "process_batch" /\ last'.status = "ok")
            => \/ last'.tr /\ Len(train_loss_values') = 1
               \/ ~ last'.tr /\ Len(val_loss_values') = 1]_vars

\* C13: a failure of the metrics collector does not abort the batch: the
\* loss is still computed and appended (after backward and step when
\* training), and a surrounding train_epoch goes on to the next batch.
C13_MetricsFailureIgnored ==
    /\ last.op = "process_batch" =>
          /\ last.status = "ok"
          /\ EvNames(events) = (IF last.tr THEN TrainOrder ELSE EvalOrder)
    /\ last.op = "train_epoch" =>
          /\ last.status = "ok"
          /\ Passes(events) = Tagged(last.train, TRUE) \o Tagged(last.val, FALSE)

\* C15: at each forward pass the model is in training mode with gradient
\* tracking exactly when that call's is_train is true, and in evaluation mode
\* without gradient tracking otherwise, whatever mode earlier calls left.
C15_ModeFollowsIsTrain ==
    \A i \in 1..Len(events) :
        events[i].ev = "forward" =>
            /\ events[i].mode = (IF events[i].tr THEN "train" ELSE "eval")
            /\ events[i].grad = events[i].tr

\* C15 witness: a training forward pass was made by a model that the
\* previous call had left in evaluation mode, within one epoch after a
\* validation pass of an earlier call.
C15_Witness ==
    /\ last.op = "train_epoch" /\ last.status = "ok"
    /\ Len(last.train) > 0 /\ Len(last.val) > 0
    /\ Len(val_loss_values) > Len(last.val)
    /\ \E i \in 1..Len(events), j \in 1..Len(events) :
          /\ i < j
          /\ events[i].ev = "forward" /\ events[i].mode = "train" /\ events[i].grad
          /\ events[j].ev = "forward" /\ events[j].mode = "eval" /\ ~ events[j].grad

\* C16: update_lr(lr) sets every parameter group's learning rate to lr and
\* leaves weights, the optimizer's gradients and state, the epoch counter and
\* both histories alone; the next optimizer step is taken with the new rate.
C16_UpdateLrFrame ==
    [][/\ last'.op = "update_lr" =>
            /\ \A g \in DOMAIN optimizer'.param_groups :
                  optimizer'.param_groups[g] = last'.arg
            /\ DOMAIN optimizer'.param_groups = DOMAIN optimizer.param_groups
            /\ model' = model
            /\ optimizer'.grads = optimizer.grads
            /\ optimizer'.state = optimizer.state
            /\ epoch_num' = epoch_num
            /\ train_loss_values' = train_loss_values
            /\ val_loss_values' = val_loss_values
       /\ (last.op = "update_lr" /\ last'.op = "process_batch" /\ last'.tr
              /\ last'.status = "ok") =>
            model'.weights =
                (model.weights + WeightMod * optimizer'.grads * Cardinality(Groups) * last.arg
                   - optimizer'.grads * Cardinality(Groups) * last.arg) % WeightMod]_vars

\* C16 witness: the rate was raised on an instance that had already trained,
\* and a training batch then stepped with it.
C16_Witness ==
    /\ last.op = "process_batch" /\ last.tr /\ last.status = "ok"
    /\ Len(train_loss_values) > 1
    /\ \A g \in DOMAIN optimizer.param_groups : optimizer.param_groups[g] = 2

\* C19: a process_batch that returns appends one value to the history its
\* is_train selects and leaves the other alone; no call but reset_losses
\* shrinks a history or changes an entry; and each history is as long as the
\* number of its batches since construction or the last reset_losses(), which
\* starts the count again at zero.
C19_HistoryCountsBatches ==
    [][/\ (last'.op = "process_batch" /\ last'.status = "ok") =>
            IF last'.tr
            THEN /\ Len(train_loss_values') = Len(train_loss_values) + 1
                 /\ val_loss_values' = val_loss_values
            ELSE /\ Len(val_loss_values') = Len(val_loss_values) + 1
                 /\ train_loss_values' = train_loss_values
       /\ last'.op # "reset_losses" =>
            /\ IsPrefix(train_loss_values, train_loss_values')
            /\ IsPrefix(val_loss_values, val_loss_values')
       /\ last'.op = "reset_losses" =>
            (train_loss_values' = <<>> /\ val_loss_values' = <<>>)]_vars

\* C20: get_losses() gives under 'train' the losses of the batches processed
\* with is_train = True, in order, and under 'validation' those of the
\* batches processed with is_train = False.
C20_LossesUnderOwnKey ==
    [][(last'.op = "process_batch" /\ last'.status = "ok") =>
          LET loss == events'[Len(events')].val
          IN  IF last'.tr
              THEN /\ Losses'.train = Append(Losses.train, loss)
                   /\ Losses'.validation = Losses.validation
              ELSE /\ Losses'.validation = Append(Losses.validation, loss)
                   /\ Losses'.train = Losses.train]_vars

\* The number of writes the last save_state completed
Written == IF last.status = "ok" THEN Len(SaveOrder) ELSE last.arg

\* C18: save_state writes the optimizer's state, then the structured state,
\* then the weights: when it fails part-way, the artifacts written are the
\* first ones of that order and the later ones are as they were; and it
\* changes nothing of the instance.
C18_SaveWritesInOrder ==
    [][last'.op = "save_state" =>
          /\ UNCHANGED <<model, optimizer, learning_rate, epoch_num,
                         train_loss_values, val_loss_values>>
          /\ optimizer_state_file' =
                IF Written' >= 1 THEN <<StateDict(Self)>> ELSE optimizer_state_file
          /\ Written' >= 2 => data_processor_state_file' = DumpState(Self)
          /\ Written' = 1 => data_processor_state_file'
                                \in {data_processor_state_file,
                                     [NoStateFile EXCEPT !.kind = "malformed"]}
          /\ Written' = 0 => data_processor_state_file' = data_processor_state_file
          /\ weights_file' =
                IF Written' >= 3 THEN <<model.weights>> ELSE weights_file]_vars

\* C18 witness: a save_state failed after its second write over an older
\* checkpoint: optimizer and state artifacts are the instance's, the
\* weights artifact still holds the older, different weights.
C18_Witness ==
    /\ last.op = "save_state" /\ last.status = "WriteFailure" /\ last.arg = 2
    /\ optimizer_state_file = <<StateDict(Self)>>
    /\ data_processor_state_file = DumpState(Self)
    /\ weights_file # <<>> /\ weights_file # <<model.weights>>

\* C14 as stated: no operation of an instance other than train_epoch changes
\* the epoch counter, and no operation lowers it.
C14_EpochOnlyAdvances ==
    [][last'.op # "init" =>
          /\ epoch_num' # epoch_num => last'.op = "train_epoch"
          /\ epoch_num' >= epoch_num]_vars

\* C14, amended: the epoch counter is changed only by a train_epoch that
\* returns, which sets it to its epoch_idx argument, and by a load() that
\* reads the structured state, which sets it to the persisted last_epoch_idx;
\* process_batch, update_lr, save_state, get_losses and reset_losses leave it
\* as it is. (It may go down: by a smaller epoch_idx, by an older checkpoint.)
C14_EpochSetByTrainEpochAndLoad ==
    [][last'.op # "init" =>
          /\ (last'.op = "train_epoch" /\ last'.status = "ok") => epoch_num' = last'.arg
          /\ epoch_num' # epoch_num =>
                \/ last'.op = "train_epoch" /\ last'.status = "ok"
                \/ /\ last'.op = "load"
                   /\ data_processor_state_file.kind = "json"
                   /\ "last_epoch_idx" \in data_processor_state_file.fields
                   /\ epoch_num' = data_processor_state_file.last_epoch_idx]_vars

\* C14 witness: an instance that has processed a batch has loaded a
\* checkpoint, and its counter is the persisted index.
C14_Witness ==
    /\ last.op = "load" /\ last.status = "ok"
    /\ Len(train_loss_values) + Len(val_loss_values) > 0
    /\ data_processor_state_file.kind = "json"
    /\ epoch_num = data_processor_state_file.last_epoch_idx

\* C12 as stated: after the run's epochs get_losses() returns BatchesPerEpoch
\* values under 'validation' and BatchesPerEpoch under 'train', whether the run
\* never reset the histories or reset them before every epoch.
C12_LastEpochOnly ==
    (last.op = "train_epoch" /\ epoch_num = RunEpochs) =>
        /\ Len(Losses.validation) = BatchesPerEpoch
        /\ Len(Losses.train) = BatchesPerEpoch

\* C12, amended: every epoch of the run adds exactly BatchesPerEpoch values
\* to what get_losses() returns under each key, after a reset_losses() as
\* well as without one; so after the epochs of a run that never reset the
\* histories get_losses() returns RunEpochs * BatchesPerEpoch values under
\* each key (the histories accumulate over the epochs).
C12_AccumulatedOverEpochs ==
    [][last'.op = "train_epoch" =>
          /\ Len(Losses'.validation) = Len(Losses.validation) + BatchesPerEpoch
          /\ Len(Losses'.train) = Len(Losses.train) + BatchesPerEpoch
          /\ (reset_policy = "never" /\ epoch_num' = RunEpochs) =>
                /\ Len(Losses'.validation) = RunEpochs * BatchesPerEpoch
                /\ Len(Losses'.train) = RunEpochs * BatchesPerEpoch]_vars

\* C12 witness: a run without resets has finished its last epoch and both
\* histories hold the losses of all its epochs.
C12_Witness ==
    /\ reset_policy = "never"
    /\ last.op = "train_epoch" /\ last.status = "ok" /\ epoch_num = RunEpochs
    /\ Len(last.train) = BatchesPerEpoch /\ Len(last.val) = BatchesPerEpoch
    /\ Len(train_loss_values) = RunEpochs * BatchesPerEpoch
    /\ Len(val_loss_values) = RunEpochs * BatchesPerEpoch

\* C17: what a result of get_state() holds (weights, optimizer state,
\* learning rates) stays what it was when get_state() returned, whatever
\* process_batch, train_epoch or update_lr calls follow.
C17_StateIsSnapshot ==
    held_state # <<>> =>
        ReadState(held_state[1].result, Self) = held_state[1].seen

====
